---- MODULE Spec2Model ----
(***************************************************************************)
(* Entrypoint dispatch and data aggregation of the social-signals agent.   *)
(*                                                                         *)
(* One call is in flight at a time (the handlers share no mutable state).  *)
(* A call is dispatched by key with a raw input, validated against the     *)
(* entrypoint's zod schema, and its handler then issues its upstream       *)
(* fetches, waits for them (Promise.all) and builds the output.            *)
(*                                                                         *)
(* Raw input values are typed: [t, n, s] where t is the JavaScript type,   *)
(* n the numeric value (or, for a free-text string, its length) and s the  *)
(* text of an enumeration candidate.                                       *)
(***************************************************************************)
EXTENDS Integers, Sequences, FiniteSets, TLC

(* ---------------------------------------------------------------------- *)
(* Bounds of the model                                                     *)
(* ---------------------------------------------------------------------- *)

\* The most items one upstream response carries.
MaxUpstream == 4

\* The longest `categories` array a caller sends.
MaxCatsLen == 5

(* ---------------------------------------------------------------------- *)
(* Raw values                                                              *)
(* ---------------------------------------------------------------------- *)

Undef == [t |-> "undefined", n |-> 0, s |-> ""]

Num(k) == [t |-> "number", n |-> k, s |-> ""]

\* A free-text string of the given length.
Text(len) == [t |-> "string", n |-> len, s |-> "q"]

\* A string holding an enumeration candidate.
Word(w) == [t |-> "string", n |-> 1, s |-> w]

Arr(items) == [t |-> "array", items |-> items]

NoArr == [t |-> "undefined", items |-> <<>>]

Min(a, b) == IF a < b THEN a ELSE b

(* ---------------------------------------------------------------------- *)
(* Schemas (zod)                                                           *)
(* ---------------------------------------------------------------------- *)

validCategories ==
    {"business", "entertainment", "general", "health", "science", "sports", "technology"}

\* z.number().min(lo).max(hi)
ZNumber(v, lo, hi) == v.t = "number" /\ v.n >= lo /\ v.n <= hi

\* z.number().min(lo).max(hi).optional().default(d): validation
ZOptNumber(v, lo, hi) == v.t = "undefined" \/ ZNumber(v, lo, hi)

\* z.number()....optional().default(d): the parsed value
ZDefaultNumber(v, d) == IF v.t = "undefined" THEN d ELSE v.n

\* z.enum([...7 categories...])
ZCategory(v) == v.t = "string" /\ v.s \in validCategories

\* z.enum([...]).optional().default('technology'): validation
ZOptCategory(v) == v.t = "undefined" \/ ZCategory(v)

\* z.enum([...]).optional().default('technology'): the parsed value
ZDefaultCategory(v) == IF v.t = "undefined" THEN "technology" ELSE v.s

OverviewSchema(raw) == raw.isObject

HnTopSchema(raw) == raw.isObject /\ ZOptNumber(raw.limit, 1, 50)

NewsSchema(raw) ==
    /\ raw.isObject
    /\ ZOptCategory(raw.category)
    /\ ZOptNumber(raw.limit, 1, 30)

SearchSchemaNoMin(raw) ==
    /\ raw.isObject
    /\ raw.query.t = "string" /\ raw.query.n <= 100
    /\ ZOptNumber(raw.limit, 1, 30)

SearchSchema(raw) ==
    /\ raw.isObject
    /\ raw.query.t = "string" /\ raw.query.n >= 1 /\ raw.query.n <= 100
    /\ ZOptNumber(raw.limit, 1, 30)

NewsMultiSchemaNoMax(raw) ==
    /\ raw.isObject
    /\ raw.categories.t = "array"
    /\ Len(raw.categories.items) >= 1
    /\ \A i \in 1..Len(raw.categories.items) : ZCategory(raw.categories.items[i])
    /\ ZOptNumber(raw.limitPerCategory, 1, 10)

NewsMultiSchema(raw) ==
    /\ raw.isObject
    /\ raw.categories.t = "array"
    /\ Len(raw.categories.items) >= 1
    /\ Len(raw.categories.items) <= 4
    /\ \A i \in 1..Len(raw.categories.items) : ZCategory(raw.categories.items[i])
    /\ ZOptNumber(raw.limitPerCategory, 1, 10)

AllSignalsSchema(raw) ==
    /\ raw.isObject
    /\ ZOptNumber(raw.hnLimit, 1, 30)
    /\ ZOptCategory(raw.newsCategory)
    /\ ZOptNumber(raw.newsLimit, 1, 20)

EntrypointKeys == {"overview", "hn-top", "news", "search", "news-multi", "all-signals"}

\* The schema bound to each entrypoint.
InputSchema(key, raw) ==
    CASE key = "overview"    -> OverviewSchema(raw)
      [] key = "hn-top"      -> HnTopSchema(raw)
      [] key = "news"        -> NewsSchema(raw)
      [] key = "search"      -> SearchSchema(raw)
      [] key = "news-multi"  -> NewsMultiSchema(raw)
      [] key = "all-signals" -> AllSignalsSchema(raw)

\* ctx.input: the parsed input, defaults applied.
ParseInput(key, raw) ==
    [limit            |-> ZDefaultNumber(raw.limit, IF key = "hn-top" THEN 20 ELSE 15),
     category         |-> ZDefaultCategory(raw.category),
     query            |-> raw.query.n,
     categories       |-> [i \in 1..Len(raw.categories.items) |-> raw.categories.items[i].s],
     limitPerCategory |-> ZDefaultNumber(raw.limitPerCategory, 5),
     hnLimit          |-> ZDefaultNumber(raw.hnLimit, 15),
     newsCategory     |-> ZDefaultCategory(raw.newsCategory),
     newsLimit        |-> ZDefaultNumber(raw.newsLimit, 10)]

EntrypointPriceFlat(key) == 1000

\* price: { amount } of each addEntrypoint
EntrypointPrice(key) ==
    CASE key = "overview"    -> 0
      [] key = "hn-top"      -> 1000
      [] key = "news"        -> 1000
      [] key = "search"      -> 2000
      [] key = "news-multi"  -> 2000
      [] key = "all-signals" -> 3000

(* ---------------------------------------------------------------------- *)
(* Upstream responses and fetch adapters                                   *)
(* ---------------------------------------------------------------------- *)

\* What one upstream call can end in: the request fails, the status is not
\* 2xx, the body is not the expected JSON, or n items come back.
Outcomes ==
    {[kind |-> k, n |-> 0] : k \in {"network", "status", "body"}}
        \cup {[kind |-> "ok", n |-> k] : k \in 0..MaxUpstream}

Item(source, title, cat, id) == [source |-> source, title |-> title, cat |-> cat, id |-> id]

\* An adapter call waiting on its upstream request.
Pending(fn, cat, hitsPerPage, limit) ==
    [fn |-> fn, cat |-> cat, hitsPerPage |-> hitsPerPage, limit |-> limit,
     st |-> "pending", upstream |-> "", received |-> 0, items |-> <<>>]

\* The adapter's promise resolved; upstream and received keep how the request
\* ended and how many items the response carried.
Resolved(f, outcome, items) ==
    [f EXCEPT !.st = "resolved", !.upstream = outcome.kind, !.received = outcome.n,
              !.items = items]

\* The adapter's promise rejected.
Rejected(f, outcome) == [f EXCEPT !.st = "rejected", !.upstream = outcome.kind]

\* fetchJSON: resolves only with a parsed 2xx body.
fetchJSON(outcome) == outcome.kind = "ok"

\* The fixed records getXTrends falls back to.
XFallback ==
    <<Item("x", "AI Agents", "Technology", 1), Item("x", "x402", "Crypto", 2)>>

\* getXTrends up to its await.
getXTrends == Pending("getXTrends", "", 0, 0)

\* getXTrends after its await: the try block covers the request and the
\* status test; the promise of response.json() is returned, not awaited.
getXTrendsSettle(f, outcome) ==
    CASE outcome.kind = "ok"   -> Resolved(f, outcome, [i \in 1..outcome.n |-> Item("x", "trend", "", i)])
      [] outcome.kind = "body" -> Rejected(f, outcome)
      [] OTHER                 -> Resolved(f, outcome, XFallback)

\* getHNTop up to its await.
getHNTop(limit) == Pending("getHNTop", "", limit, 0)

\* getHNTop after its await: every hit is mapped, none is dropped.
getHNTopSettle(f, outcome) ==
    IF fetchJSON(outcome)
    THEN Resolved(f, outcome, [i \in 1..outcome.n |-> Item("hackernews", "story", "", i)])
    ELSE Rejected(f, outcome)

\* searchHN up to its await.
searchHN(query, limit) == Pending("searchHN", "", limit, 0)

\* searchHN after its await.
searchHNSettle(f, outcome) ==
    IF fetchJSON(outcome)
    THEN Resolved(f, outcome, [i \in 1..outcome.n |-> Item("hackernews", "story", "", i)])
    ELSE Rejected(f, outcome)

getNewsCatAsGiven(category) == category

\* getNews: the category the request is made for.
getNewsCat(category) ==
    IF category \in validCategories THEN category ELSE "technology"

\* getNews up to its await.
getNews(category, limit) == Pending("getNews", getNewsCat(category), 0, limit)

getNewsSliceAll(articles, limit) == articles

\* data.articles.slice(0, limit)
getNewsSlice(articles, limit) == SubSeq(articles, 1, Min(limit, Len(articles)))

\* getNews after its await.
getNewsSettle(f, outcome) ==
    IF fetchJSON(outcome)
    THEN Resolved(f, outcome, getNewsSlice([i \in 1..outcome.n |-> Item("news", "article", f.cat, i)], f.limit))
    ELSE Rejected(f, outcome)

\* The continuation of the adapter that issued the request.
Settle(f, outcome) ==
    CASE f.fn = "getXTrends" -> getXTrendsSettle(f, outcome)
      [] f.fn = "getHNTop"   -> getHNTopSettle(f, outcome)
      [] f.fn = "searchHN"   -> searchHNSettle(f, outcome)
      [] f.fn = "getNews"    -> getNewsSettle(f, outcome)

(* ---------------------------------------------------------------------- *)
(* Promise.all                                                             *)
(* ---------------------------------------------------------------------- *)

PromiseAllSettled(fs) == \A i \in 1..Len(fs) : fs[i].st # "pending"

PromiseAnyResolved(fs) == \E i \in 1..Len(fs) : fs[i].st = "resolved"

\* Promise.all resolves once every member has resolved.
PromiseAllResolves(fs) == \A i \in 1..Len(fs) : fs[i].st = "resolved"

\* Promise.all rejects as soon as one member has rejected.
PromiseAllRejects(fs) == \E i \in 1..Len(fs) : fs[i].st = "rejected"

(* ---------------------------------------------------------------------- *)
(* Handler outputs                                                         *)
(* ---------------------------------------------------------------------- *)

RECURSIVE SumLen(_)
\* results.reduce((sum, r) => sum + r.articles.length, 0)
SumLen(rs) ==
    IF rs = <<>> THEN 0 ELSE Len(rs[1].articles) + SumLen(Tail(rs))

\* x[0]?.title || null
FirstTitle(items) == IF items = <<>> THEN "null" ELSE items[1].title

\* new Date().toISOString()
NowISO == "iso-8601"

OverviewOutput(input, fs) ==
    [summary   |-> [hn_stories |-> Len(fs[1].items), news_articles |-> Len(fs[2].items),
                    sources |-> <<"hackernews", "news">>],
     sample    |-> [hn_top |-> FirstTitle(fs[1].items), news_top |-> FirstTitle(fs[2].items)],
     fetchedAt |-> NowISO,
     upgrade   |-> "Use paid endpoints for full data with pagination and filtering"]

HnTopOutput(input, fs) ==
    [count |-> Len(fs[1].items), stories |-> fs[1].items, fetchedAt |-> NowISO]

NewsOutput(input, fs) ==
    [category |-> input.category, count |-> Len(fs[1].items), articles |-> fs[1].items,
     fetchedAt |-> NowISO]

SearchOutput(input, fs) ==
    [query |-> input.query, count |-> Len(fs[1].items), results |-> fs[1].items,
     fetchedAt |-> NowISO]

NewsMultiResultsReversed(categories, fs) ==
    [i \in 1..Len(categories) |->
        [category |-> categories[i], articles |-> fs[Len(categories) + 1 - i].items]]

\* The value Promise.all gives for categories.map(async (cat) => ...).
NewsMultiResults(categories, fs) ==
    [i \in 1..Len(categories) |-> [category |-> categories[i], articles |-> fs[i].items]]

NewsMultiOutput(input, fs) ==
    [categories    |-> input.categories,
     totalArticles |-> SumLen(NewsMultiResults(input.categories, fs)),
     results       |-> NewsMultiResults(input.categories, fs),
     fetchedAt     |-> NowISO]

AllSignalsOutput(input, fs) ==
    [hackernews |-> [count |-> Len(fs[1].items), stories |-> fs[1].items],
     news       |-> [category |-> input.newsCategory, count |-> Len(fs[2].items),
                     articles |-> fs[2].items],
     totals     |-> [sources |-> 2, items |-> Len(fs[1].items) + Len(fs[2].items)],
     fetchedAt  |-> NowISO]

\* The output of the handler bound to the key.
HandlerOutput(key, input, fs) ==
    CASE key = "overview"    -> OverviewOutput(input, fs)
      [] key = "hn-top"      -> HnTopOutput(input, fs)
      [] key = "news"        -> NewsOutput(input, fs)
      [] key = "search"      -> SearchOutput(input, fs)
      [] key = "news-multi"  -> NewsMultiOutput(input, fs)
      [] key = "all-signals" -> AllSignalsOutput(input, fs)

(* ---------------------------------------------------------------------- *)
(* Inputs callers send                                                     *)
(* ---------------------------------------------------------------------- *)

EmptyInput ==
    [isObject |-> TRUE, limit |-> Undef, category |-> Undef, query |-> Undef,
     categories |-> NoArr, limitPerCategory |-> Undef, hnLimit |-> Undef,
     newsCategory |-> Undef, newsLimit |-> Undef]

\* A body that is no object at all.
NonObject == [EmptyInput EXCEPT !.isObject = FALSE]

\* An absent limit, one of the wrong type, and limits around the range 1..max.
LimitInputs(max) == {Undef, Text(1), Num(0), Num(1), Num(2), Num(max), Num(max + 1)}

CategoryInputs == {Undef, Num(1), Word("technology"), Word("sports"), Word("sports2")}

QueryInputs == {Undef, Num(1), Text(0), Text(1), Text(100), Text(101)}

RECURSIVE SeqsUpTo(_, _)
\* The sequences over S of length at most n.
SeqsUpTo(S, n) ==
    IF n = 0 THEN {<<>>}
    ELSE LET shorter == SeqsUpTo(S, n - 1)
         IN  shorter \cup {Append(q, x) : q \in shorter, x \in S}

CategoriesInputs ==
    {NoArr} \cup
    {Arr(q) : q \in SeqsUpTo({Word("technology"), Word("sports"), Word("sports2")}, MaxCatsLen)}

\* The raw inputs tried for each key; "no-such-key" is no entrypoint.
RawInputs(key) ==
    {NonObject} \cup
    CASE key = "hn-top" ->
           {[EmptyInput EXCEPT !.limit = l] : l \in LimitInputs(50)}
      [] key = "news" ->
           {[EmptyInput EXCEPT !.category = c, !.limit = l] :
                c \in CategoryInputs, l \in LimitInputs(30)}
      [] key = "search" ->
           {[EmptyInput EXCEPT !.query = q, !.limit = l] :
                q \in QueryInputs, l \in LimitInputs(30)}
      [] key = "news-multi" ->
           {[EmptyInput EXCEPT !.categories = cs, !.limitPerCategory = l] :
                cs \in CategoriesInputs, l \in {Undef, Text(1), Num(0), Num(1), Num(11)}}
      [] key = "all-signals" ->
           {[EmptyInput EXCEPT !.hnLimit = h, !.newsCategory = c, !.newsLimit = l] :
                h \in {Undef, Num(0), Num(1), Num(31)},
                c \in CategoryInputs,
                l \in LimitInputs(20)}
      [] OTHER -> {EmptyInput}

(* ---------------------------------------------------------------------- *)
(* State                                                                   *)
(* ---------------------------------------------------------------------- *)

VARIABLES
    call,      \* the call in flight: key, raw input, status, ctx.input
    fetches,   \* the adapter calls of the call in flight, in the order issued
    output,    \* the response envelope's output, once the handler returned
    billed,    \* the (key, price) reported for the call in flight
    probe      \* an adapter invoked on its own: fn, category, limit

vars == <<call, fetches, output, billed, probe>>

NoCall == [key |-> "", raw |-> EmptyInput, status |-> "idle", input |-> ParseInput("", EmptyInput)]

NoOutput == [fetchedAt |-> "null"]

NoBill == [key |-> "", price |-> 0]

NoProbe == [fn |-> "", category |-> "", limit |-> 0]

Init ==
    /\ call = NoCall
    /\ fetches = <<>>
    /\ output = NoOutput
    /\ billed = NoBill
    /\ probe = NoProbe

(* ---------------------------------------------------------------------- *)
(* Dispatch                                                                *)
(* ---------------------------------------------------------------------- *)

\* dispatch(key, rawInput) up to the handler: look the key up, validate the
\* input, apply the defaults, report the declared price.
Dispatch(key, raw) ==
    /\ call.status = "idle"
    /\ probe = NoProbe
    /\ IF key \notin EntrypointKeys
       THEN /\ call' = [NoCall EXCEPT !.key = key, !.raw = raw, !.status = "not_found"]
            /\ billed' = billed
       ELSE /\ billed' = [key |-> key, price |-> EntrypointPrice(key)]
            /\ IF InputSchema(key, raw)
               THEN call' = [key |-> key, raw |-> raw, status |-> "validated",
                             input |-> ParseInput(key, raw)]
               ELSE call' = [NoCall EXCEPT !.key = key, !.raw = raw,
                                           !.status = "validation_error"]
    /\ UNCHANGED <<fetches, output, probe>>

(* ---------------------------------------------------------------------- *)
(* Handlers, up to their await                                             *)
(* ---------------------------------------------------------------------- *)

Invoke(key, issued) ==
    /\ call.status = "validated"
    /\ call.key = key
    /\ call' = [call EXCEPT !.status = "running"]
    /\ fetches' = issued
    /\ UNCHANGED <<output, billed, probe>>

OverviewHandler == Invoke("overview", <<getHNTop(3), getNews("technology", 3)>>)

HnTopHandler == Invoke("hn-top", <<getHNTop(call.input.limit)>>)

NewsHandler == Invoke("news", <<getNews(call.input.category, call.input.limit)>>)

SearchHandler == Invoke("search", <<searchHN(call.input.query, call.input.limit)>>)

NewsMultiHandler ==
    Invoke("news-multi",
           [i \in 1..Len(call.input.categories) |->
               getNews(call.input.categories[i], call.input.limitPerCategory)])

AllSignalsHandler ==
    Invoke("all-signals",
           <<getHNTop(call.input.hnLimit),
             getNews(call.input.newsCategory, call.input.newsLimit)>>)

(* ---------------------------------------------------------------------- *)
(* Upstream responses and handler completion                               *)
(* ---------------------------------------------------------------------- *)

\* The awaited Promise.all resolved: the handler builds and returns its output.
HandlerReturn(fs) ==
    /\ call' = [call EXCEPT !.status = "success"]
    /\ output' = HandlerOutput(call.key, call.input, fs)

\* The awaited Promise.all rejected: the handler throws, there is no output.
HandlerThrow ==
    /\ call' = [call EXCEPT !.status = "upstream_error"]
    /\ output' = output

\* What the waiting handler does once an adapter call has settled.  The
\* promise reactions run to completion before any other response is handled.
Resume(fs) ==
    IF call.status = "running" /\ PromiseAllResolves(fs) THEN HandlerReturn(fs)
    ELSE IF call.status = "running" /\ PromiseAllRejects(fs) THEN HandlerThrow
    ELSE UNCHANGED <<call, output>>

\* One pending request ends, its adapter runs to completion, and the handler
\* waiting on it resumes if Promise.all settled.  Requests still pending when
\* the handler has thrown are not cancelled; their results are never read.
FetchSettle(i, outcome) ==
    /\ i \in 1..Len(fetches)
    /\ fetches[i].st = "pending"
    /\ call.status = "running" \/ probe.fn # ""
    /\ LET fs == [fetches EXCEPT ![i] = Settle(@, outcome)]
       IN  fetches' = fs /\ Resume(fs)
    /\ UNCHANGED <<billed, probe>>

\* The call is over and its context is discarded.
Discard ==
    /\ call.status \in {"not_found", "validation_error", "success", "upstream_error"}
    /\ call' = NoCall
    /\ fetches' = <<>>
    /\ output' = NoOutput
    /\ billed' = NoBill
    /\ UNCHANGED probe

Next ==
    \/ /\ call.status = "idle"
       /\ \E key \in EntrypointKeys \cup {"no-such-key"} :
              \E raw \in RawInputs(key) : Dispatch(key, raw)
    \/ OverviewHandler
    \/ HnTopHandler
    \/ NewsHandler
    \/ SearchHandler
    \/ NewsMultiHandler
    \/ AllSignalsHandler
    \/ \E i \in 1..Len(fetches) : \E outcome \in Outcomes : FetchSettle(i, outcome)
    \/ Discard

Spec == Init /\ [][Next]_vars

(* ---------------------------------------------------------------------- *)
(* The adapters on their own                                               *)
(* ---------------------------------------------------------------------- *)

\* The category arguments tried: the seven of the enumeration and two others.
ProbeCategories == validCategories \cup {"sports2", ""}

\* getNews(category, limit) called directly.
ProbeGetNews(category, limit) ==
    /\ call.status = "idle"
    /\ probe = NoProbe
    /\ probe' = [fn |-> "getNews", category |-> category, limit |-> limit]
    /\ fetches' = <<getNews(category, limit)>>
    /\ UNCHANGED <<call, output, billed>>

\* getXTrends() called directly.
ProbeGetXTrends ==
    /\ call.status = "idle"
    /\ probe = NoProbe
    /\ probe' = [fn |-> "getXTrends", category |-> "", limit |-> 0]
    /\ fetches' = <<getXTrends>>
    /\ UNCHANGED <<call, output, billed>>

\* The adapter's promise settled and was consumed.
ProbeDone ==
    /\ probe # NoProbe
    /\ \A i \in 1..Len(fetches) : fetches[i].st # "pending"
    /\ probe' = NoProbe
    /\ fetches' = <<>>
    /\ UNCHANGED <<call, output, billed>>

AdapterNext ==
    \/ \E category \in ProbeCategories : \E limit \in 1..(MaxUpstream + 1) :
           ProbeGetNews(category, limit)
    \/ ProbeGetXTrends
    \/ \E i \in 1..Len(fetches) : \E outcome \in Outcomes : FetchSettle(i, outcome)
    \/ ProbeDone

AdapterSpec == Init /\ [][AdapterNext]_vars

(* ---------------------------------------------------------------------- *)
(* Properties                                                              *)
(* ---------------------------------------------------------------------- *)

\* The enumeration of categories, as the entrypoint table states it.
CategoryEnum ==
    {"business", "entertainment", "general", "health", "science", "sports", "technology"}

\* A limit that is present and is no number within 1..max.
BadLimit(v, max) == v.t # "undefined" /\ (v.t # "number" \/ v.n < 1 \/ v.n > max)

\* A category that is present and is no member of the enumeration.
BadCategory(v) == v.t # "undefined" /\ (v.t # "string" \/ v.s \notin CategoryEnum)

\* The raw input breaks a constraint of the entrypoint.
ViolatesConstraints(key, raw) ==
    \/ ~raw.isObject
    \/ key = "hn-top" /\ BadLimit(raw.limit, 50)
    \/ key = "news" /\ (BadCategory(raw.category) \/ BadLimit(raw.limit, 30))
    \/ key = "search" /\ \/ raw.query.t # "string"
                         \/ raw.query.n = 0
                         \/ raw.query.n > 100
                         \/ BadLimit(raw.limit, 30)
    \/ key = "news-multi" /\ \/ raw.categories.t # "array"
                             \/ Len(raw.categories.items) = 0
                             \/ Len(raw.categories.items) > 4
                             \/ \E i \in 1..Len(raw.categories.items) :
                                    raw.categories.items[i].s \notin CategoryEnum
                             \/ BadLimit(raw.limitPerCategory, 10)
    \/ key = "all-signals" /\ \/ BadLimit(raw.hnLimit, 30)
                              \/ BadCategory(raw.newsCategory)
                              \/ BadLimit(raw.newsLimit, 20)

HandlerRan == call.status \in {"running", "success", "upstream_error"}

\* C1: a call whose raw input breaks a constraint of its entrypoint ends in a
\* validation error; its handler is not invoked, no fetch is issued and no
\* output is produced.
C1_InvalidInputRejected ==
    (call.key \in EntrypointKeys /\ ViolatesConstraints(call.key, call.raw)) =>
        /\ call.status = "validation_error"
        /\ fetches = <<>>
        /\ output = NoOutput

\* C1 witness: search with an empty query was dispatched and rejected.
C1_Witness ==
    /\ call.key = "search"
    /\ call.raw.query = Text(0)
    /\ call.status = "validation_error"

MultiSource == {"overview", "news-multi", "all-signals"}

\* C2: in a multi-source call, once one of the fetches has failed the call has
\* failed and there is no output, whatever the other fetches did or will do.
C2_NoOutputWhenAFetchFailed ==
    (call.key \in MultiSource /\ \E i \in 1..Len(fetches) : fetches[i].st = "rejected") =>
        /\ call.status = "upstream_error"
        /\ output = NoOutput

\* C2 witness: a news-multi call failed on its second fetch after the first
\* had delivered articles, a third being still pending.
C2_Witness ==
    /\ call.key = "news-multi"
    /\ call.status = "upstream_error"
    /\ Len(fetches) >= 3
    /\ fetches[1].st = "resolved" /\ Len(fetches[1].items) > 0
    /\ fetches[2].st = "rejected"
    /\ fetches[3].st = "pending"

\* The price of each key in the entrypoint table.
TablePrice ==
    [k \in EntrypointKeys |->
        CASE k = "overview" -> 0
          [] k = "hn-top" -> 1000
          [] k = "news" -> 1000
          [] k = "search" -> 2000
          [] k = "news-multi" -> 2000
          [] k = "all-signals" -> 3000]

\* C4: the price reported for a call is the table value of its key, whatever
\* the input and whatever the upstreams answered.
C4_PriceIsTableValue ==
    /\ billed # NoBill => billed.key = call.key
    /\ (call.key \in EntrypointKeys /\ call.status # "idle") =>
           billed = [key |-> call.key, price |-> TablePrice[call.key]]

\* C4 witness: all-signals returned zero items and 3000 was reported.
C4_Witness ==
    /\ call.key = "all-signals"
    /\ call.status = "success"
    /\ output.totals.items = 0
    /\ billed.price = 3000

\* C5: a successful overview reports at most 3 discussion items and at most 3
\* headlines, each count being 3 unless the upstream sent fewer, and a
\* fetchedAt that is not null.
C5_OverviewAtMostThree ==
    (call.key = "overview" /\ call.status = "success") =>
        /\ output.summary.hn_stories = Min(3, fetches[1].received)
        /\ output.summary.news_articles = Min(3, fetches[2].received)
        /\ output.summary.hn_stories <= 3
        /\ output.summary.news_articles <= 3
        /\ output.fetchedAt # "null"

Distinct(q) == \A i, j \in 1..Len(q) : i # j => q[i] # q[j]

\* C6 (as claimed): the news-multi handler only runs with distinct categories
\* and never issues two fetches for one category.
C6_OnlyDistinctCategories ==
    (call.key = "news-multi" /\ HandlerRan) =>
        /\ Distinct(call.input.categories)
        /\ \A i, j \in 1..Len(fetches) : i # j => fetches[i].cat # fetches[j].cat

\* C6 (amended): the news-multi handler only runs with a list of 1 to 4
\* values of the enumeration, repeated or not, and issues one fetch per
\* element of the list, for that element's category.
C6_EnumListOneFetchPerElement ==
    (call.key = "news-multi" /\ HandlerRan) =>
        /\ Len(call.raw.categories.items) \in 1..4
        /\ \A i \in 1..Len(call.raw.categories.items) :
               call.raw.categories.items[i].s \in CategoryEnum
        /\ Len(fetches) = Len(call.raw.categories.items)
        /\ \A i \in 1..Len(fetches) : fetches[i].cat = call.raw.categories.items[i].s

\* C6 witness: the handler runs with technology listed twice and has issued
\* two fetches for technology.
C6_Witness ==
    /\ call.key = "news-multi"
    /\ call.status = "running"
    /\ call.input.categories = <<"technology", "technology">>
    /\ Len(fetches) = 2
    /\ fetches[1].cat = "technology" /\ fetches[2].cat = "technology"

\* The number of fetches a multi-source call makes.
FanOut ==
    IF call.key = "news-multi" THEN Len(call.raw.categories.items) ELSE 2

\* C7: in a multi-source call every fetch is issued when the handler starts,
\* before it waits on any, and an output exists only when none is pending.
C7_FanOutFanIn ==
    (call.key \in MultiSource) =>
        /\ HandlerRan => Len(fetches) = FanOut
        /\ ~HandlerRan => fetches = <<>>
        /\ (call.status = "success" \/ output # NoOutput) =>
               \A i \in 1..Len(fetches) : fetches[i].st # "pending"

\* C7 witness: an all-signals call returned its output with both of its
\* fetches resolved and their items counted.
C7_Witness ==
    /\ call.key = "all-signals"
    /\ call.status = "success"
    /\ Len(fetches) = 2
    /\ fetches[1].st = "resolved" /\ fetches[2].st = "resolved"
    /\ output.totals.items = Len(fetches[1].items) + Len(fetches[2].items)
    /\ output.totals.items > 0

RECURSIVE TotalOf(_, _)
\* The sum of the lengths of the articles lists of the first n results.
TotalOf(results, n) ==
    IF n = 0 THEN 0 ELSE Len(results[n].articles) + TotalOf(results, n - 1)

\* C9: headlines never outnumber the caller's limit; news-multi's
\* totalArticles is the sum of its per-category list lengths.
C9_HeadlinesWithinLimit ==
    call.status = "success" =>
        /\ call.key = "news" =>
               /\ output.count <= call.input.limit
               /\ output.count = Len(output.articles)
        /\ call.key = "all-signals" =>
               /\ output.news.count <= call.input.newsLimit
               /\ output.news.count = Len(output.news.articles)
        /\ call.key = "news-multi" =>
               /\ \A i \in 1..Len(output.results) :
                      Len(output.results[i].articles) <= call.input.limitPerCategory
               /\ output.totalArticles = TotalOf(output.results, Len(output.results))
               /\ output.totalArticles
                      <= Len(call.input.categories) * call.input.limitPerCategory

\* C9 witness: news with limit 2 returned 2 articles of a response of more.
C9_Witness ==
    /\ call.key = "news"
    /\ call.status = "success"
    /\ call.input.limit = 2
    /\ fetches[1].received > 2
    /\ output.count = 2

\* C10: a successful news-multi has one result per requested category, in
\* the order of the input, each with the articles fetched for its category.
C10_ResultsFollowInput ==
    (call.key = "news-multi" /\ call.status = "success") =>
        /\ Len(output.results) = Len(call.raw.categories.items)
        /\ \A i \in 1..Len(output.results) :
               /\ output.results[i].category = call.raw.categories.items[i].s
               /\ fetches[i].cat = output.results[i].category
               /\ output.results[i].articles = fetches[i].items
               /\ \A k \in 1..Len(output.results[i].articles) :
                      output.results[i].articles[k].cat = output.results[i].category

\* C10 witness: technology then sports were requested and returned in that
\* order with different numbers of articles.
C10_Witness ==
    /\ call.key = "news-multi"
    /\ call.status = "success"
    /\ Len(output.results) = 2
    /\ output.results[1].category = "technology"
    /\ output.results[2].category = "sports"
    /\ Len(output.results[1].articles) = 1
    /\ Len(output.results[2].articles) = 0

\* C3: getXTrends never fails, and gives exactly the two fallback records
\* whenever its upstream call did not succeed.
C3_TrendsNeverFail ==
    (probe.fn = "getXTrends" /\ fetches[1].st # "pending") =>
        /\ fetches[1].st = "resolved"
        /\ fetches[1].upstream # "ok" =>
               fetches[1].items = <<Item("x", "AI Agents", "Technology", 1),
                                    Item("x", "x402", "Crypto", 2)>>

\* C8: getNews issues exactly one fetch, for the category given when it is
\* one of the enumeration and for technology otherwise; the category never
\* makes it fail.
C8_OneFetchCoercedCategory ==
    probe.fn = "getNews" =>
        /\ Len(fetches) = 1
        /\ fetches[1].fn = "getNews"
        /\ fetches[1].cat =
               (IF probe.category \in CategoryEnum THEN probe.category ELSE "technology")
        /\ fetches[1].st = "rejected" => fetches[1].upstream # "ok"
        /\ fetches[1].upstream = "ok" => fetches[1].st = "resolved"

\* C8 witness: getNews("sports2", ...) fetched technology and resolved.
C8_Witness ==
    /\ probe.fn = "getNews"
    /\ probe.category = "sports2"
    /\ fetches[1].cat = "technology"
    /\ fetches[1].st = "resolved"
    /\ Len(fetches[1].items) > 0

====
